---------------------------- MODULE Spec2Model ----------------------------
(***************************************************************************)
(* Model of the obsidian-yt-transcript plugin:                             *)
(*   - the "paste-transcript" editor command of src/main.ts (clipboard    *)
(*     read, transcript fetch, the chunking loop, replaceSelection),       *)
(*   - the "Timestamp interval" setting of the settings tab,               *)
(*   - the PromptModal of src/prompt-modal.ts.                             *)
(*                                                                         *)
(* Strings are sequences of one-character strings, so that formatting and  *)
(* parsing are computed and not assumed.  Durations are kept in integer    *)
(* milliseconds: the code divides by 1000 and adds IEEE doubles, which is  *)
(* exact for the durations enumerated here (multiples of 125 ms).          *)
(***************************************************************************)
EXTENDS Integers, Sequences, FiniteSets, TLC

VARIABLES
    pc,            \* position of the paste-transcript callback
    url,           \* value of `url` (main.ts:77)
    fetched,       \* how fetchTranscript settled: "none", "ok", "null", "rejected"
    lines,         \* transcript.lines handed to the then-callback
    block,         \* `block` (main.ts:83) when the callback ends
    blockDuration, \* `blockDuration` (main.ts:84) when the callback ends
    replaceCalls,  \* calls of editor.replaceSelection in this run
    docInsert,     \* text put at the cursor by this run
    consoleErrors, \* calls of console.error in this run
    escaped,       \* an error left the command callback
    settings,      \* plugin.settings
    saved,         \* what saveData persisted last ("none" before any save)
    mOpen,         \* PromptModal is open
    submitted,     \* PromptModal.submitted
    value,         \* PromptModal.value
    resolveCalls,  \* calls of the resolve callback given to the current open
    rejectCalls,   \* calls of the reject callback given to the current open
    resolvedWith,  \* argument of the last resolve call
    closedBy,      \* what closed the modal last: "none", "submit", "dismiss"
    opens,         \* opens of this modal instance
    promise,       \* the promise awaited by transcript-from-prompt (main.ts:53)
    viewUrl        \* url last given to openView by transcript-from-prompt

pasteVars == <<pc, url, fetched, lines, block, blockDuration, replaceCalls,
               docInsert, consoleErrors, escaped, settings, saved>>
modalVars == <<mOpen, submitted, value, resolveCalls, rejectCalls,
               resolvedWith, closedBy, opens, promise, viewUrl>>
vars == <<pasteVars, modalVars>>

---------------------------------------------------------------------------
(* Bounds of the model *)

MaxLines == 3
MaxOpens == 3

DurationsMs == {0, 5000, 10000}
OffsetsMs == {0, 3665000, 86465000}
Texts == {<<"a">>, <<"b">>}
Urls == {<<>>, <<"u">>}
SettingInputs == {<<"x">>, <<"0">>, <<"1", "0">>, <<"-", "2">>, <<"3", "s">>}
TypedValues == {<<>>, <<"u">>, <<"v">>}

---------------------------------------------------------------------------
(* String helpers: what the JavaScript built-ins used by the code do *)

DigitChars == <<"0", "1", "2", "3", "4", "5", "6", "7", "8", "9">>

IsDigit(c) == \E d \in 1..10 : DigitChars[d] = c

DigitValue(c) == (CHOOSE d \in 1..10 : DigitChars[d] = c) - 1

RECURSIVE NatToString(_)
NatToString(n) ==
    IF n < 10 THEN <<DigitChars[n + 1]>>
    ELSE NatToString(n \div 10) \o <<DigitChars[(n % 10) + 1]>>

RECURSIVE PadStart(_, _, _)
PadStart(s, width, c) ==
    IF Len(s) >= width THEN s ELSE PadStart(<<c>> \o s, width, c)

RECURSIVE DigitsToNat(_, _)
DigitsToNat(s, acc) ==
    IF s = <<>> THEN acc
    ELSE DigitsToNat(Tail(s), acc * 10 + DigitValue(Head(s)))

ToNumber(s) == DigitsToNat(s, 0)

RECURSIVE SplitOn(_, _, _)
SplitOn(s, sep, cur) ==
    IF s = <<>> THEN <<cur>>
    ELSE IF Head(s) = sep THEN <<cur>> \o SplitOn(Tail(s), sep, <<>>)
    ELSE SplitOn(Tail(s), sep, Append(cur, Head(s)))

Split(s, sep) == SplitOn(s, sep, <<>>)

RECURSIVE Join(_)
Join(ss) == IF ss = <<>> THEN <<>> ELSE Head(ss) \o Join(Tail(ss))

(* new Date(ms).toISOString().substring(11, 19): the UTC time of day *)
ISOTimeOfDay(ms) ==
    LET hh == (ms \div 3600000) % 24
        mm == (ms \div 60000) % 60
        ss == (ms \div 1000) % 60
    IN  PadStart(NatToString(hh), 2, "0") \o <<":">>
        \o PadStart(NatToString(mm), 2, "0") \o <<":">>
        \o PadStart(NatToString(ss), 2, "0")

---------------------------------------------------------------------------
(* The chunking loop of the paste-transcript command *)

Threshold == 10

Timestamp(offsetMs) ==
    LET timestamp == ISOTimeOfDay(offsetMs)
        parts == Split(timestamp, ":")
        hours == ToNumber(parts[1])
        minutes == ToNumber(parts[2])
        seconds == ToNumber(parts[3])
        totalMinutes == hours * 60 + minutes
        totalSeconds == PadStart(NatToString(seconds), 2, "0")
    IN  NatToString(totalMinutes) \o <<":">> \o totalSeconds

(* Timestamp, tabulated over the offsets the model draws from *)
TimestampOf == [o \in OffsetsMs |-> Timestamp(o)]

HeaderLine(line, i) ==
    [hdr |-> TRUE, i |-> i,
     s |-> <<"[">> \o TimestampOf[line.offset] \o <<"]", "\n">>]

TextLine(line, i) ==
    [hdr |-> FALSE, i |-> i, s |-> line.text \o <<"\n">>]

OpensBlock_Strict(bd, blk) == bd > Threshold * 1000 \/ Len(blk) = 0

OpensBlock_NoFirst(bd, blk) == bd >= Threshold * 1000

OpensBlock(bd, blk) == bd >= Threshold * 1000 \/ Len(blk) = 0

LoopBody_HeaderReplacesText(st, line, i) ==
    LET bd == st.blockDuration + line.duration
    IN  IF OpensBlock(bd, st.block)
        THEN [block |-> Append(st.block, HeaderLine(line, i)), blockDuration |-> 0]
        ELSE [block |-> Append(st.block, TextLine(line, i)), blockDuration |-> bd]

LoopBody(st, line, i) ==
    LET bd == st.blockDuration + line.duration
    IN  IF OpensBlock(bd, st.block)
        THEN [block |-> st.block \o <<HeaderLine(line, i), TextLine(line, i)>>,
              blockDuration |-> 0]
        ELSE [block |-> Append(st.block, TextLine(line, i)), blockDuration |-> bd]

RECURSIVE ForEachFrom(_, _, _)
ForEachFrom(st, ls, i) ==
    IF i > Len(ls) THEN st
    ELSE ForEachFrom(LoopBody(st, ls[i], i), ls, i + 1)

ForEach(ls) == ForEachFrom([block |-> <<>>, blockDuration |-> 0], ls, 1)

ShouldInsert_Always(blk) == TRUE

ShouldInsert(blk) == Len(blk) > 0

---------------------------------------------------------------------------
(* Inputs *)

Fragment == [text : Texts, offset : OffsetsMs, duration : DurationsMs]

NonDecreasing(ls) ==
    \A i \in 1..(Len(ls) - 1) : ls[i].offset <= ls[i + 1].offset

Transcripts ==
    {ls \in UNION {[1..n -> Fragment] : n \in 0..MaxLines} : NonDecreasing(ls)}

---------------------------------------------------------------------------
(* Settings *)

DefaultTimestampMod == 5
NaNFallback == 5

(* Number.parseInt(value): optional sign, then the leading decimal digits;
   NaN (the nan field) when there are none *)
RECURSIVE LeadingDigits(_)
LeadingDigits(s) ==
    IF s = <<>> \/ ~IsDigit(Head(s)) THEN <<>>
    ELSE <<Head(s)>> \o LeadingDigits(Tail(s))

ParseInt(s) ==
    LET neg == s # <<>> /\ Head(s) = "-"
        rest == IF s # <<>> /\ Head(s) \in {"-", "+"} THEN Tail(s) ELSE s
        ds == LeadingDigits(rest)
    IN  IF ds = <<>> THEN [nan |-> TRUE, n |-> 0]
        ELSE [nan |-> FALSE, n |-> IF neg THEN 0 - ToNumber(ds) ELSE ToNumber(ds)]

---------------------------------------------------------------------------
(* State after onload: settings loaded over the defaults, nothing run yet *)

NoUrl == <<"?">>
Undefined == <<"undefined">>

Init ==
    /\ pc = "idle"
    /\ url = NoUrl
    /\ fetched = "none"
    /\ lines = <<>>
    /\ block = <<>>
    /\ blockDuration = 0
    /\ replaceCalls = 0
    /\ docInsert = <<>>
    /\ consoleErrors = 0
    /\ escaped = FALSE
    /\ settings = [timestampMod |-> DefaultTimestampMod]
    /\ saved = "none"
    /\ mOpen = FALSE
    /\ submitted = FALSE
    /\ value = Undefined
    /\ resolveCalls = 0
    /\ rejectCalls = 0
    /\ resolvedWith = Undefined
    /\ closedBy = "none"
    /\ opens = 0
    /\ promise = "none"
    /\ viewUrl = Undefined

---------------------------------------------------------------------------
(* paste-transcript: editorCallback *)

(* The command is invoked: the callback starts and awaits the clipboard *)
InvokePaste ==
    /\ pc \in {"idle", "done"}
    /\ pc' = "readText"
    /\ url' = NoUrl
    /\ fetched' = "none"
    /\ lines' = <<>>
    /\ block' = <<>>
    /\ blockDuration' = 0
    /\ replaceCalls' = 0
    /\ docInsert' = <<>>
    /\ consoleErrors' = 0
    /\ escaped' = FALSE
    /\ UNCHANGED <<settings, saved, modalVars>>

(* navigator.clipboard.readText() resolves; an empty url ends the command,
   any other starts fetchTranscript *)
ClipboardRead ==
    /\ pc = "readText"
    /\ \E u \in Urls :
        /\ url' = u
        /\ pc' = IF u # <<>> THEN "fetching" ELSE "done"
    /\ UNCHANGED <<fetched, lines, block, blockDuration, replaceCalls, docInsert,
                   consoleErrors, escaped, settings, saved, modalVars>>

(* navigator.clipboard.readText() rejects: the await throws out of the callback *)
ClipboardReject ==
    /\ pc = "readText"
    /\ escaped' = TRUE
    /\ pc' = "done"
    /\ UNCHANGED <<url, fetched, lines, block, blockDuration, replaceCalls, docInsert,
                   consoleErrors, settings, saved, modalVars>>

(* fetchTranscript resolves with a transcript: the then-callback runs the loop
   and inserts the joined block when it is not empty *)
FetchResolve ==
    /\ pc = "fetching"
    /\ \E ls \in Transcripts :
        LET st == ForEach(ls)
        IN  /\ lines' = ls
            /\ block' = st.block
            /\ blockDuration' = st.blockDuration
            /\ IF ShouldInsert(st.block)
               THEN /\ replaceCalls' = replaceCalls + 1
                    /\ docInsert' = Join([k \in 1..Len(st.block) |-> st.block[k].s])
               ELSE UNCHANGED <<replaceCalls, docInsert>>
    /\ fetched' = "ok"
    /\ pc' = "done"
    /\ UNCHANGED <<url, consoleErrors, escaped, settings, saved, modalVars>>

(* fetchTranscript resolves with no transcript: the then-callback does nothing *)
FetchResolveNull ==
    /\ pc = "fetching"
    /\ fetched' = "null"
    /\ pc' = "done"
    /\ UNCHANGED <<url, lines, block, blockDuration, replaceCalls, docInsert,
                   consoleErrors, escaped, settings, saved, modalVars>>

(* fetchTranscript rejects: the catch handler logs the error *)
FetchReject ==
    /\ pc = "fetching"
    /\ fetched' = "rejected"
    /\ consoleErrors' = consoleErrors + 1
    /\ pc' = "done"
    /\ UNCHANGED <<url, lines, block, blockDuration, replaceCalls, docInsert,
                   escaped, settings, saved, modalVars>>

(* Settings tab, "Timestamp interval": onChange parses, stores and saves.
   A change made after a run has ended is taken at the start of the next run
   (it commutes with InvokePaste), so that in a finished run `settings` is
   still the record the run was made under. *)
ChangeTimestampMod ==
    /\ pc # "done"
    /\ \E input \in SettingInputs :
        LET v == ParseInt(input)
            s == [settings EXCEPT !.timestampMod = IF v.nan THEN NaNFallback ELSE v.n]
        IN  /\ settings' = s
            /\ saved' = s
    /\ UNCHANGED <<pc, url, fetched, lines, block, blockDuration, replaceCalls,
                   docInsert, consoleErrors, escaped, modalVars>>

Next ==
    \/ InvokePaste
    \/ ClipboardRead
    \/ ClipboardReject
    \/ FetchResolve
    \/ FetchResolveNull
    \/ FetchReject
    \/ ChangeTimestampMod

Spec == Init /\ [][Next]_vars

---------------------------------------------------------------------------
(* PromptModal *)

(* new PromptModal(): a fresh instance (main.ts creates one per command run);
   taken once the previous instance has been used, a fresh one being the
   initial state *)
Construct ==
    /\ ~mOpen
    /\ opens > 0
    /\ submitted' = FALSE
    /\ value' = Undefined
    /\ resolveCalls' = 0
    /\ rejectCalls' = 0
    /\ resolvedWith' = Undefined
    /\ closedBy' = "none"
    /\ opens' = 0
    /\ UNCHANGED <<mOpen, promise, viewUrl, pasteVars>>

(* new Promise(resolve => prompt.openAndGetValue(resolve, () => {})):
   openAndGetValue stores the two callbacks and opens; onOpen builds a new,
   empty form *)
OpenAndGetValue ==
    /\ ~mOpen
    /\ opens < MaxOpens
    /\ mOpen' = TRUE
    /\ resolveCalls' = 0
    /\ rejectCalls' = 0
    /\ resolvedWith' = Undefined
    /\ closedBy' = "none"
    /\ opens' = opens + 1
    /\ promise' = "pending"
    /\ UNCHANGED <<submitted, value, viewUrl, pasteVars>>

(* the text input's onChange *)
TypeText ==
    /\ mOpen
    /\ \E v \in TypedValues : value' = v
    /\ UNCHANGED <<mOpen, submitted, resolveCalls, rejectCalls, resolvedWith,
                   closedBy, opens, promise, viewUrl, pasteVars>>

(* onClose, run by close(): rejects unless submitted *)
OnCloseRejects(sub) == ~sub

(* resolveAndClose: submitted = true, resolve(value), close() and so onClose *)
ResolveAndClose ==
    /\ submitted' = TRUE
    /\ resolveCalls' = resolveCalls + 1
    /\ resolvedWith' = value
    /\ mOpen' = FALSE
    /\ rejectCalls' = IF OnCloseRejects(TRUE) THEN rejectCalls + 1 ELSE rejectCalls
    /\ closedBy' = "submit"
    /\ promise' = "resolved"
    /\ UNCHANGED <<value, opens, viewUrl, pasteVars>>

(* click on the Submit button *)
ClickSubmit ==
    /\ mOpen
    /\ ResolveAndClose

(* keydown in the input with key "Enter": enterCallback *)
PressEnter ==
    /\ mOpen
    /\ ResolveAndClose

(* the modal is dismissed (Escape, click outside): close() and so onClose *)
Dismiss ==
    /\ mOpen
    /\ mOpen' = FALSE
    /\ rejectCalls' = IF OnCloseRejects(submitted) THEN rejectCalls + 1 ELSE rejectCalls
    /\ closedBy' = "dismiss"
    /\ UNCHANGED <<submitted, value, resolveCalls, resolvedWith, opens, promise,
                   viewUrl, pasteVars>>

(* transcript-from-prompt after the await: openView(url) when url is truthy *)
Truthy(str) == str # Undefined /\ str # <<>>

PromptContinue ==
    /\ promise = "resolved"
    /\ promise' = "settled"
    /\ viewUrl' = IF Truthy(resolvedWith) THEN resolvedWith ELSE viewUrl
    /\ UNCHANGED <<mOpen, submitted, value, resolveCalls, rejectCalls, resolvedWith,
                   closedBy, opens, pasteVars>>

ModalNext ==
    \/ Construct
    \/ OpenAndGetValue
    \/ TypeText
    \/ ClickSubmit
    \/ PressEnter
    \/ Dismiss
    \/ PromptContinue

ModalSpec == Init /\ [][ModalNext]_vars

---------------------------------------------------------------------------
(* Vocabulary of the properties, read off the output of a finished run *)

Ran == pc = "done" /\ fetched = "ok"

NLines == Len(lines)

TextRows == SelectSeq(block, LAMBDA r : ~r.hdr)

(* the fragments that open a block: those a header line was emitted for *)
Openers == {block[k].i : k \in {m \in 1..Len(block) : block[m].hdr}}

(* a header line stands immediately before the text line of fragment i *)
HeaderBefore(i) ==
    \E k \in 1..(Len(block) - 1) :
        /\ block[k].hdr /\ block[k].i = i
        /\ ~block[k + 1].hdr /\ block[k + 1].i = i

RECURSIVE SumDur(_, _)
SumDur(a, b) == IF a > b THEN 0 ELSE lines[a].duration + SumDur(a + 1, b)

(* the most recent block-opening fragment strictly before fragment i (0: none) *)
LastOpener(i) ==
    LET S == {j \in Openers : j < i}
    IN  IF S = {} THEN 0 ELSE CHOOSE j \in S : \A m \in S : m <= j

(* the opener that follows opener a (0: a opens the last block) *)
NextOpener(a) ==
    LET S == {j \in Openers : j > a}
    IN  IF S = {} THEN 0 ELSE CHOOSE j \in S : \A m \in S : j <= m

ExpectedLabel(ms) ==
    NatToString(ms \div 60000) \o <<":">>
    \o PadStart(NatToString((ms \div 1000) % 60), 2, "0")

ExpectedLabelOf == [o \in OffsetsMs |-> ExpectedLabel(o)]

(* a label "M:SS" read back as a number of seconds *)
LabelSeconds(label) ==
    LET parts == Split(label, ":")
    IN  ToNumber(parts[1]) * 60 + ToNumber(parts[2])

LabelOfRow(r) == SubSeq(r.s, 2, Len(r.s) - 2)

---------------------------------------------------------------------------
(* C1: every block except possibly the last has a sum of its own fragments'
   durations that is at least the threshold.  Stated as the claim has it;
   the loop breaks it, because the duration of the fragment that opens a
   block is discarded by the reset and the fragment that reaches the
   threshold is put in the next block. *)
C1_BlocksReachThreshold ==
    Ran =>
        \A a \in Openers :
            NextOpener(a) # 0 => SumDur(a, NextOpener(a) - 1) >= Threshold * 1000

(* C2: the output with its header lines removed is the sequence of the
   fragment texts (each followed by its line break) in input order: nothing
   dropped, duplicated or reordered. *)
C2_Partition ==
    /\ Len(TextRows) = NLines
    /\ \A k \in 1..Len(TextRows) :
        /\ TextRows[k].i = k
        /\ TextRows[k].s = lines[k].text \o <<"\n">>

C2_Witness ==
    /\ Ran
    /\ NLines >= 3
    /\ Cardinality(Openers) >= 2
    /\ lines[1].text # lines[2].text

(* C3: for a non-empty input the first output line is a header made from the
   first fragment's offset, whatever its duration, and every header line is
   immediately followed by a text line: no two adjacent headers, no header
   at the end. *)
C3_HeadersOpenNonEmptyBlocks ==
    (Ran /\ NLines > 0) =>
        /\ block[1].hdr
        /\ block[1].i = 1
        /\ block[1].s = <<"[">> \o TimestampOf[lines[1].offset] \o <<"]", "\n">>
        /\ \A k \in 1..Len(block) :
            block[k].hdr => (k < Len(block) /\ ~block[k + 1].hdr)

C3_Witness ==
    /\ Ran
    /\ NLines >= 2
    /\ lines[1].duration = 0
    /\ Cardinality(Openers) >= 2

(* C4: the header of a block opened at offset o is floor(o / 60000), a colon,
   and floor(o / 1000) mod 60 on two digits, with no wraparound of the hours,
   so that for non-decreasing offsets the labels never decrease.  Stated as
   the claim has it; the time of day taken from the ISO date wraps at 24 h. *)
C4_HeaderLabel ==
    Ran =>
        /\ \A k \in 1..Len(block) :
            block[k].hdr =>
                block[k].s = <<"[">> \o ExpectedLabelOf[lines[block[k].i].offset]
                             \o <<"]", "\n">>
        /\ \A k \in 1..Len(block) : \A m \in k..Len(block) :
            (block[k].hdr /\ block[m].hdr) =>
                LabelSeconds(LabelOfRow(block[k])) <= LabelSeconds(LabelOfRow(block[m]))

(* C5: a fragment whose duration brings the accumulated duration of the
   current block to the threshold stays in that block, the next header
   coming before the following fragment only (so none when it is the last
   fragment).  Stated as the claim has it; the loop emits the header before
   the very fragment that reaches the threshold. *)
C5_ReachingFragmentStays ==
    Ran =>
        \A i \in 2..NLines :
            (/\ SumDur(LastOpener(i), i) >= Threshold * 1000
             /\ SumDur(LastOpener(i), i - 1) < Threshold * 1000)
            => ~HeaderBefore(i)

(* C6: with a threshold of 0 or less every fragment gets its own header.
   Stated as the claim has it, the threshold being the timestamp-interval
   setting; the loop compares with the literal 10 whatever the setting. *)
C6_DegenerateThreshold ==
    (Ran /\ settings.timestampMod <= 0) =>
        \A i \in 1..NLines : HeaderBefore(i)

(* C7: replaceSelection is called at most once in a run, and not at all,
   with the document untouched and no error leaving the command, when the
   clipboard text is empty, the fetch fails, the transcript is absent or the
   transcript has no lines. *)
C7_NothingToInsert ==
    /\ replaceCalls <= 1
    /\ (/\ pc = "done"
        /\ \/ url = <<>>
           \/ fetched \in {"rejected", "null"}
           \/ (fetched = "ok" /\ NLines = 0))
       => (replaceCalls = 0 /\ docInsert = <<>> /\ ~escaped)

C7_Witness ==
    /\ pc = "done"
    /\ fetched = "ok"
    /\ NLines = 0
    /\ replaceCalls = 0

(* C8: the threshold the loop compares the accumulated duration with is the
   timestamp-interval setting in force when the command runs.  Stated as the
   claim has it; the loop compares with the literal 10. *)
C8_ThresholdIsSetting ==
    Ran =>
        \A i \in 2..NLines :
            HeaderBefore(i) <=>
                SumDur(LastOpener(i) + 1, i) >= settings.timestampMod * 1000

(* C9: every open of the modal that is later closed has called exactly one
   of its two callbacks, once: resolve with the value on Submit or Enter,
   reject on dismissal, also when the instance is opened again after a
   submission.  Stated as the claim has it; `submitted` is never reset. *)
C9_ExactlyOneCallback ==
    (~mOpen /\ closedBy # "none") =>
        /\ resolveCalls + rejectCalls = 1
        /\ closedBy = "submit" => (resolveCalls = 1 /\ resolvedWith = value)
        /\ closedBy = "dismiss" => rejectCalls = 1

(* C10: a header stands immediately before fragment i exactly when i is the
   first fragment or the durations of the fragments after the most recent
   opener, up to and including i, add up to the threshold or more; the
   accumulator restarts at 0 after a header, so the opener's own duration is
   not counted. *)
C10_HeaderRule ==
    Ran =>
        /\ \A i \in 1..NLines :
            HeaderBefore(i) <=>
                (i = 1 \/ SumDur(LastOpener(i) + 1, i) >= Threshold * 1000)
        /\ blockDuration = SumDur(LastOpener(NLines + 1) + 1, NLines)

C10_Witness ==
    /\ Ran
    /\ \E i \in 2..NLines :
        /\ HeaderBefore(i)
        /\ lines[LastOpener(i)].duration > 0
        /\ SumDur(LastOpener(i) + 1, i) = Threshold * 1000
        /\ LastOpener(i) + 1 < i

====
